---- MODULE Spec2Model ----
(***************************************************************************)
(* Model of the wellness backend (src/main.py, src/schemas.py): the        *)
(* calorie estimator, the meal selector, the grocery aggregator, the       *)
(* fitness program selector, and the endpoints that wire them to the       *)
(* optional document store.                                                *)
(***************************************************************************)
EXTENDS Integers, Sequences, FiniteSets, TLC

(***************************************************************************)
(* Python values.  A number is a record: kind "fin" carries the value in   *)
(* units of 1/160 (6.25 = 50/8 and 1.45 = 29/20, so every intermediate of  *)
(* calculate_calories is a whole number of 1/160ths when weight and height *)
(* are multiples of 1/2); "huge" is the finite double 1e308; "pinf",       *)
(* "ninf" and "nan" are the IEEE specials; "none" is Python's None.        *)
(***************************************************************************)
Unit == 8 * 20

Fin(n) == [k |-> "fin", v |-> n]

Num(x) == Fin(x * Unit)

Half(x) == Fin(x * (Unit \div 2))

None == [k |-> "none", v |-> 0]

Huge == [k |-> "huge", v |-> 0]

PInf == [k |-> "pinf", v |-> 0]

NInf == [k |-> "ninf", v |-> 0]

NaN == [k |-> "nan", v |-> 0]

NoneStr == "<None>"

\* x or d, for numbers: None and zero are falsy, NaN and the infinities truthy
OrNum(x, d) == IF x.k = "none" \/ (x.k = "fin" /\ x.v = 0) THEN d ELSE x

\* x or d, for strings: None and "" are falsy
OrStr(x, d) == IF x = NoneStr \/ x = "" THEN d ELSE x

\* c * x for the positive literal c = num/den (10, 6.25, 5, 1.45); the products
\* 10 * 1e308 and 6.25 * 1e308 exceed the largest double and give +infinity
FMul(num, den, x) ==
    CASE x.k = "fin" -> Fin((x.v * num) \div den)
      [] x.k = "huge" -> PInf
      [] OTHER -> x

FNeg(x) ==
    CASE x.k = "fin" -> Fin(-x.v)
      [] x.k = "pinf" -> NInf
      [] x.k = "ninf" -> PInf
      [] OTHER -> x

FAdd(x, y) ==
    CASE x.k = "nan" \/ y.k = "nan" -> NaN
      [] x.k = "pinf" /\ y.k = "ninf" -> NaN
      [] x.k = "ninf" /\ y.k = "pinf" -> NaN
      [] x.k = "pinf" \/ y.k = "pinf" -> PInf
      [] x.k = "ninf" \/ y.k = "ninf" -> NInf
      [] OTHER -> Fin(x.v + y.v)

\* max(1200, x): x replaces 1200 only when x > 1200 is true
FMax1200(x) ==
    CASE x.k = "pinf" -> PInf
      [] x.k = "fin" /\ x.v > 1200 * Unit -> x
      [] OTHER -> Num(1200)

Trunc(v) == IF v >= 0 THEN v \div Unit ELSE -((-v) \div Unit)

Returned(val) == [ok |-> TRUE, val |-> val, exc |-> ""]

Raised(exc) == [ok |-> FALSE, val |-> 0, exc |-> exc]

\* int(x)
PyInt(x) ==
    CASE x.k = "fin" -> Returned(Trunc(x.v))
      [] x.k = "nan" -> Raised("ValueError")
      [] OTHER -> Raised("OverflowError")

(***************************************************************************)
(* Calorie estimator                                                       *)
(***************************************************************************)
GenderOffsetSwapped(gender) == IF OrStr(gender, "female") = "female" THEN 5 ELSE -161

GenderOffset(gender) == IF OrStr(gender, "female") = "female" THEN -161 ELSE 5

GoalAdj(goal) ==
    LET g == OrStr(goal, "maintain")
    IN  CASE g = "lose" -> -400
          [] g = "lean" -> -150
          [] g = "build" -> 200
          [] g = "bulk" -> 400
          [] g = "maintain" -> 0
          [] OTHER -> 0

TDEE(weight_kg, height_cm, age, gender) ==
    LET w == OrNum(weight_kg, Num(70))
        h == OrNum(height_cm, Num(170))
        a == OrNum(age, Num(30))
        s == GenderOffset(gender)
        bmr == FAdd(FAdd(FAdd(FMul(10, 1, w), FMul(25, 4, h)), FNeg(FMul(5, 1, a))), Num(s))
    IN  FMul(29, 20, bmr)

calculate_calories(goal, weight_kg, height_cm, age, gender) ==
    PyInt(FMax1200(FAdd(TDEE(weight_kg, height_cm, age, gender), Num(GoalAdj(goal)))))

(***************************************************************************)
(* Meal selector                                                           *)
(***************************************************************************)
Meal(title, ingredients, calories, protein_g, carbs_g, fats_g) ==
    [title |-> title, ingredients |-> ingredients, calories |-> calories,
     protein_g |-> protein_g, carbs_g |-> carbs_g, fats_g |-> fats_g]

base ==
    << Meal("Oats with berries", <<"oats", "almond milk", "berries", "chia">>, 450, 18, 60, 12),
       Meal("Grilled chicken bowl", <<"chicken", "quinoa", "broccoli", "olive oil">>, 650, 45, 50, 20),
       Meal("Tofu stir-fry", <<"tofu", "brown rice", "mixed veg", "soy sauce">>, 600, 30, 70, 18),
       Meal("Salmon salad", <<"salmon", "greens", "avocado", "vinaigrette">>, 550, 35, 25, 28) >>

FallbackMeal ==
    Meal("Mixed veggie bowl", <<"quinoa", "chickpeas", "veg">>, 550, 22, 70, 16)

\* x in ings
InList(x, ings) == \E i \in DOMAIN ings : ings[i] = x

\* str.lower() on the strings the model draws; the catalog is lower case already
Lower(s) ==
    CASE s = "Quinoa" -> "quinoa"
      [] s = "SALMON" -> "salmon"
      [] s = "Eggs" -> "eggs"
      [] s = "Home" -> "home"
      [] s = "Gym" -> "gym"
      [] s = "Outdoor" -> "outdoor"
      [] OTHER -> s

VeganSkipChickenOnly(diet_type, ings) ==
    diet_type = "vegan" /\ InList("chicken", ings)

VeganSkip(diet_type, ings) ==
    diet_type = "vegan" /\ (InList("chicken", ings) \/ InList("salmon", ings))

VegetarianSkip(diet_type, ings) ==
    diet_type = "vegetarian" /\ InList("chicken", ings)

\* any(x.lower() in [i.lower() for i in ings] for x in allergies + dislikes)
AllergySkip(ings, allergies, dislikes) ==
    LET xs == allergies \o dislikes
    IN  \E j \in DOMAIN xs : \E i \in DOMAIN ings : Lower(xs[j]) = Lower(ings[i])

Skipped(e, diet_type, allergies, dislikes) ==
    \/ VeganSkip(diet_type, e.ingredients)
    \/ VegetarianSkip(diet_type, e.ingredients)
    \/ AllergySkip(e.ingredients, allergies, dislikes)

\* the for loop over base, from entry i on, with the meals and total so far
RECURSIVE MealLoop(_, _, _, _, _, _, _)
MealLoop(i, meals, total, cal_target, diet_type, allergies, dislikes) ==
    IF i > Len(base) THEN meals
    ELSE IF Skipped(base[i], diet_type, allergies, dislikes)
         THEN MealLoop(i + 1, meals, total, cal_target, diet_type, allergies, dislikes)
         ELSE LET meals2 == Append(meals, base[i])
                  total2 == total + base[i].calories
              IN  IF total2 >= cal_target THEN meals2
                  ELSE MealLoop(i + 1, meals2, total2, cal_target, diet_type, allergies, dislikes)

\* the same loop stopping only once the total exceeds the target
RECURSIVE MealLoopStrict(_, _, _, _, _, _, _)
MealLoopStrict(i, meals, total, cal_target, diet_type, allergies, dislikes) ==
    IF i > Len(base) THEN meals
    ELSE IF Skipped(base[i], diet_type, allergies, dislikes)
         THEN MealLoopStrict(i + 1, meals, total, cal_target, diet_type, allergies, dislikes)
         ELSE LET meals2 == Append(meals, base[i])
                  total2 == total + base[i].calories
              IN  IF total2 > cal_target THEN meals2
                  ELSE MealLoopStrict(i + 1, meals2, total2, cal_target, diet_type, allergies, dislikes)

generate_meals_strict(cal_target, diet_type, allergies, dislikes) ==
    LET meals == MealLoopStrict(1, <<>>, 0, cal_target, diet_type, allergies, dislikes)
    IN  IF meals = <<>> THEN <<FallbackMeal>> ELSE meals

generate_meals_no_fallback(cal_target, diet_type, allergies, dislikes) ==
    MealLoop(1, <<>>, 0, cal_target, diet_type, allergies, dislikes)

generate_meals(cal_target, diet_type, allergies, dislikes) ==
    LET meals == MealLoop(1, <<>>, 0, cal_target, diet_type, allergies, dislikes)
    IN  IF meals = <<>> THEN <<FallbackMeal>> ELSE meals

(***************************************************************************)
(* Grocery aggregator.  The dict bag is a sequence of <<key, count>> in    *)
(* insertion order.                                                        *)
(***************************************************************************)
BagHas(bag, ing) == \E i \in DOMAIN bag : bag[i][1] = ing

\* bag[ing] = bag.get(ing, 0) + 1, losing the old count
BagAddReset(bag, ing) ==
    IF BagHas(bag, ing)
    THEN [i \in DOMAIN bag |-> IF bag[i][1] = ing THEN <<ing, 1>> ELSE bag[i]]
    ELSE Append(bag, <<ing, 1>>)

\* bag[ing] = bag.get(ing, 0) + 1
BagAdd(bag, ing) ==
    IF BagHas(bag, ing)
    THEN [i \in DOMAIN bag |-> IF bag[i][1] = ing THEN <<ing, bag[i][2] + 1>> ELSE bag[i]]
    ELSE Append(bag, <<ing, 1>>)

RECURSIVE BagOfIngredients(_, _, _)
BagOfIngredients(bag, ings, j) ==
    IF j > Len(ings) THEN bag ELSE BagOfIngredients(BagAdd(bag, ings[j]), ings, j + 1)

RECURSIVE BagOfMeals(_, _, _)
BagOfMeals(bag, meals, i) ==
    IF i > Len(meals) THEN bag
    ELSE BagOfMeals(BagOfIngredients(bag, meals[i].ingredients, 1), meals, i + 1)

\* f"{k} x{v}"
GroceryLine(k, v) == k \o " x" \o ToString(v)

build_groceries(meals) ==
    LET bag == BagOfMeals(<<>>, meals, 1)
    IN  [i \in DOMAIN bag |-> GroceryLine(bag[i][1], bag[i][2])]

(***************************************************************************)
(* Fitness program selector                                                *)
(***************************************************************************)
Day(day, workout) == [day |-> day, workout |-> workout]

HomeDays ==
    << Day("Mon", <<"Push-ups 4x12", "Squats 4x15", "Plank 3x60s">>),
       Day("Wed", <<"Lunges 4x12", "Dips 4x10", "Crunches 3x20">>),
       Day("Fri", <<"Burpees 4x10", "Glute bridge 4x15", "Side plank 3x45s">>) >>

OutdoorDays ==
    << Day("Tue", <<"Jog 30 min", "Hill sprints 8x20s", "Mobility 10 min">>),
       Day("Thu", <<"Bike 40 min", "Push-ups 4x12", "Core 10 min">>),
       Day("Sat", <<"Hike 60 min", "Stretch 15 min">>) >>

GymDays ==
    << Day("Mon", <<"Squat 5x5", "Bench 5x5", "Row 5x5">>),
       Day("Wed", <<"Deadlift 3x5", "OHP 5x5", "Pull-ups 3xAMRAP">>),
       Day("Fri", <<"Leg press 4x10", "Incline DB 4x10", "Lat pulldown 4x10">>) >>

\* the model's validation of the field setting: Literal["home", "gym", "outdoor"]
FitnessProgram(setting, days) ==
    IF setting \in {"home", "gym", "outdoor"}
    THEN Returned([setting |-> setting, days |-> days])
    ELSE Raised("ValidationError")

gym_program(setting, goal) ==
    LET days == IF setting = "home" THEN HomeDays
                ELSE IF setting = "outdoor" THEN OutdoorDays
                ELSE GymDays
    IN  FitnessProgram(setting, days)

(***************************************************************************)
(* State.  pc, op, arg, ret: the call in progress or just finished and its *)
(* outcome.  db: whether the database module was imported with a handle.   *)
(* mealplanDocs, prefDocs, pantryDocs: the documents of the collections    *)
(* "mealplan", "preferenceupdate" and "pantryitem", in insertion order.    *)
(* first: the first generate_plan request served and its response.         *)
(***************************************************************************)
VARIABLES pc, op, arg, ret, db, mealplanDocs, prefDocs, pantryDocs, first

vars == <<pc, op, arg, ret, db, mealplanDocs, prefDocs, pantryDocs, first>>

storeVars == <<db, mealplanDocs, prefDocs, pantryDocs, first>>

MaxAllergies == 3

MaxDislikes == 1

MaxMeals == 2

MaxIngredients == 2

SeqsUpTo(S, n) == UNION {[1..m -> S] : m \in 0..n}

Goals == {"lose", "lean", "build", "bulk", "maintain", "keto", "", NoneStr}

Weights == {None, Num(0), Num(70), Half(181), Num(-40), Num(300), Huge, PInf, NaN}

Heights == {None, Num(0), Num(170), Half(321), NInf}

Ages == {None, Num(0), Num(30), Num(64), Num(120)}

Genders == {NoneStr, "", "female", "male", "other", "Female"}

CalTargets == {-1, 0, 1, 450, 451, 1100, 1200, 1700, 2250, 2400}

DietTypes == {"omnivore", "vegan", "vegetarian", "gluten-free", "lactose-intolerant", "keto"}

AllergyNames == {"oats", "Quinoa", "tofu", "salmon", "veg"}

DislikeNames == {"SALMON", "quinoa"}

IngredientNames == {"a", "b", "c"}

Settings == {"home", "gym", "outdoor", "unknown-setting", "Home", ""}

NoStore ==
    /\ db = FALSE
    /\ mealplanDocs = <<>>
    /\ prefDocs = <<>>
    /\ pantryDocs = <<>>
    /\ first = [set |-> FALSE]

InitCore ==
    /\ pc = "ready"
    /\ ret = Returned(0)
    /\ NoStore
    /\ \/ /\ op = "calculate_calories"
          /\ arg \in [goal : Goals, weight_kg : Weights, height_cm : Heights,
                      age : Ages, gender : Genders]
       \/ /\ op = "generate_meals"
          /\ arg \in [cal_target : CalTargets, diet_type : DietTypes,
                      allergies : SeqsUpTo(AllergyNames, MaxAllergies),
                      dislikes : SeqsUpTo(DislikeNames, MaxDislikes)]
       \/ /\ op = "build_groceries"
          /\ \E ms \in SeqsUpTo(SeqsUpTo(IngredientNames, MaxIngredients), MaxMeals) :
                arg = [meals |-> [i \in DOMAIN ms |-> Meal("m", ms[i], 0, 0, 0, 0)]]
       \/ /\ op = "gym_program"
          /\ arg \in [setting : Settings, goal : Goals]

CallCalculateCalories ==
    /\ pc = "ready" /\ op = "calculate_calories"
    /\ ret' = calculate_calories(arg.goal, arg.weight_kg, arg.height_cm, arg.age, arg.gender)
    /\ pc' = "done"
    /\ UNCHANGED <<op, arg>>
    /\ UNCHANGED storeVars

CallGenerateMeals ==
    /\ pc = "ready" /\ op = "generate_meals"
    /\ ret' = Returned(generate_meals(arg.cal_target, arg.diet_type, arg.allergies, arg.dislikes))
    /\ pc' = "done"
    /\ UNCHANGED <<op, arg>>
    /\ UNCHANGED storeVars

CallBuildGroceries ==
    /\ pc = "ready" /\ op = "build_groceries"
    /\ ret' = Returned(build_groceries(arg.meals))
    /\ pc' = "done"
    /\ UNCHANGED <<op, arg>>
    /\ UNCHANGED storeVars

CallGymProgram ==
    /\ pc = "ready" /\ op = "gym_program"
    /\ ret' = gym_program(arg.setting, arg.goal)
    /\ pc' = "done"
    /\ UNCHANGED <<op, arg>>
    /\ UNCHANGED storeVars

Next ==
    \/ CallCalculateCalories
    \/ CallGenerateMeals
    \/ CallBuildGroceries
    \/ CallGymProgram

Init == InitCore

Spec == Init /\ [][Next]_vars

(***************************************************************************)
(* Endpoints and the optional document store.  The database module is not  *)
(* part of the sources: create_document either stores the document and     *)
(* returns its id or raises, get_documents either returns the documents of *)
(* the collection in insertion order, cut to limit, or raises.  Each call  *)
(* draws its outcome from StoreOutcomes.                                   *)
(***************************************************************************)
MaxDocs == 1

MaxPrefs == 1

MaxPantry == 2

StoreOutcomes == {"ok", "raise"}

\* what create_document leaves in the collection docs
create_document(docs, doc, out) == IF out = "ok" THEN Append(docs, doc) ELSE docs

\* what get_documents returns when it returns; limit 0 stands for no limit
get_documents(docs, limit) ==
    IF limit = 0 \/ Len(docs) <= limit THEN docs ELSE SubSeq(docs, 1, limit)

goal_map(goal) ==
    CASE goal = "lose weight" -> "lose"
      [] goal = "get lean" -> "lean"
      [] goal = "build muscle" -> "build"
      [] goal = "bulk" -> "bulk"
      [] goal = "maintain weight" -> "maintain"

MealPlan(goal, diet_type, daily_calorie_target, meals, groceries) ==
    [user_id |-> NoneStr, goal |-> goal, diet_type |-> diet_type,
     daily_calorie_target |-> daily_calorie_target, meals |-> meals,
     groceries |-> groceries]

\* the plan generate_plan builds once the calorie target cal_target is known
PlanOf(req, cal_target) ==
    LET diet == OrStr(req.diet_type, "omnivore")
        meals == generate_meals(cal_target, diet, req.allergies, req.dislikes)
    IN  MealPlan(goal_map(req.goal), diet, cal_target, meals, build_groceries(meals))

\* a response whose plan carries an identifier taken from the store
PlanResponseWithStoreId(req) ==
    LET cal == calculate_calories(goal_map(req.goal), req.weight, req.height, req.age, req.gender)
        program == gym_program(Lower(req.workout_preference), goal_map(req.goal))
    IN  IF ~cal.ok THEN Raised(cal.exc)
        ELSE IF ~program.ok THEN Raised(program.exc)
        ELSE Returned([daily_calorie_target |-> cal.val,
                       meal_plan |-> [PlanOf(req, cal.val) EXCEPT
                                          !.user_id = ToString(Len(mealplanDocs))],
                       fitness_program |-> program.val])

\* the response of generate_plan: the PlanResponse, or the exception of a step
PlanResponse(req) ==
    LET cal == calculate_calories(goal_map(req.goal), req.weight, req.height, req.age, req.gender)
        program == gym_program(Lower(req.workout_preference), goal_map(req.goal))
    IN  IF ~cal.ok THEN Raised(cal.exc)
        ELSE IF ~program.ok THEN Raised(program.exc)
        ELSE Returned([daily_calorie_target |-> cal.val,
                       meal_plan |-> PlanOf(req, cal.val),
                       fitness_program |-> program.val])

\* the body both /api/nutrition/generate and /api/meal-plan/regenerate run
GeneratePlanBody(name, req, out) ==
    LET cal == calculate_calories(goal_map(req.goal), req.weight, req.height, req.age, req.gender)
        written == db /\ cal.ok
    IN  /\ pc = "serving"
        /\ (written /\ out = "ok") => Len(mealplanDocs) < MaxDocs
        /\ ~written => out = "ok"
        /\ op' = name
        /\ arg' = req
        /\ ret' = PlanResponse(req)
        /\ mealplanDocs' = IF written
                           THEN create_document(mealplanDocs,
                                    [groceries |-> PlanOf(req, cal.val).groceries], out)
                           ELSE mealplanDocs
        /\ UNCHANGED <<pc, db, prefDocs, pantryDocs>>

generate_plan(req, out) == GeneratePlanBody("generate_plan", req, out)

regenerate_plan(req, out) == GeneratePlanBody("regenerate_plan", req, out)

view_groceries(out) ==
    LET docs == get_documents(mealplanDocs, 1)
    IN  /\ pc = "serving"
        /\ ~db => out = "ok"
        /\ op' = "view_groceries"
        /\ arg' = <<>>
        /\ ret' = IF ~db THEN Raised("HTTPException 404")
                  ELSE IF out = "raise" THEN Raised("StoreError")
                  ELSE IF docs = <<>> THEN Raised("HTTPException 404")
                  ELSE Returned(docs[Len(docs)].groceries)
        /\ UNCHANGED <<pc, db, mealplanDocs, prefDocs, pantryDocs>>

update_preferences(pref, out) ==
    /\ pc = "serving"
    /\ (db /\ out = "ok") => Len(prefDocs) < MaxPrefs
    /\ ~db => out = "ok"
    /\ op' = "update_preferences"
    /\ arg' = pref
    /\ ret' = Returned([status |-> "ok", saved |-> TRUE])
    /\ prefDocs' = IF db THEN create_document(prefDocs, pref, out) ELSE prefDocs
    /\ UNCHANGED <<pc, db, mealplanDocs, pantryDocs>>

PantryItem(name) == [name |-> name, quantity |-> NoneStr, category |-> NoneStr]

pantry_add(item, out) ==
    /\ pc = "serving"
    /\ (db /\ out = "ok") => Len(pantryDocs) < MaxPantry
    /\ ~db => out = "ok"
    /\ op' = "pantry_add"
    /\ arg' = item
    /\ ret' = Returned([status |-> "ok",
                        id |-> IF db /\ out = "ok"
                               THEN ToString(Len(pantryDocs) + 1) ELSE NoneStr])
    /\ pantryDocs' = IF db THEN create_document(pantryDocs, item, out) ELSE pantryDocs
    /\ UNCHANGED <<pc, db, mealplanDocs, prefDocs>>

\* the value pantry_list returns, or the exception get_documents raised in it
PantryList(out) ==
    IF ~db THEN Returned(<<>>)
    ELSE IF out = "raise" THEN Raised("StoreError")
    ELSE LET docs == get_documents(pantryDocs, 0)
         IN  Returned([i \in DOMAIN docs |-> PantryItem(docs[i].name)])

pantry_list(out) ==
    /\ pc = "serving"
    /\ ~db => out = "ok"
    /\ op' = "pantry_list"
    /\ arg' = <<>>
    /\ ret' = PantryList(out)
    /\ UNCHANGED <<pc, db, mealplanDocs, prefDocs, pantryDocs>>

Suggestions(items) ==
    LET s == {Lower(items[i]) : i \in DOMAIN items}
        a == IF {"pasta", "tomato"} \subseteq s THEN <<"Simple tomato pasta">> ELSE <<>>
        b == IF {"rice", "eggs"} \subseteq s THEN <<"Egg fried rice">> ELSE <<>>
        c == IF {"oats", "banana"} \subseteq s THEN <<"Banana oatmeal">> ELSE <<>>
    IN  IF items = <<>> THEN <<"Veggie omelette", "Peanut butter toast", "Tomato pasta">>
        ELSE IF a \o b \o c = <<>> THEN <<"Mixed grain bowl", "Stir-fry veggies">>
        ELSE a \o b \o c

pantry_suggest(out) ==
    LET listed == PantryList(out)
    IN  /\ pc = "serving"
        /\ ~db => out = "ok"
        /\ op' = "pantry_suggest"
        /\ arg' = <<>>
        /\ ret' = IF ~db THEN Returned(Suggestions(<<>>))
                  ELSE IF ~listed.ok THEN Raised(listed.exc)
                  ELSE Returned(Suggestions([i \in DOMAIN listed.val |-> listed.val[i].name]))
        /\ UNCHANGED <<pc, db, mealplanDocs, prefDocs, pantryDocs>>

\* the loop "for it in items: try: create_document(...); added += 1" from item i on
RECURSIVE AddAll(_, _, _, _)
AddAll(docs, items, outs, i) ==
    IF i > Len(items) THEN docs
    ELSE AddAll(create_document(docs, PantryItem(items[i]), outs[i]), items, outs, i + 1)

\* a mocked detection endpoint: scan_receipt and pantry_photo differ in the items
DetectAndAdd(name, items, outs) ==
    LET after == IF db THEN AddAll(pantryDocs, items, outs, 1) ELSE pantryDocs
    IN  /\ pc = "serving"
        /\ Len(after) <= MaxPantry
        /\ ~db => \A i \in DOMAIN outs : outs[i] = "ok"
        /\ op' = name
        /\ arg' = [image_base64 |-> "img"]
        /\ ret' = Returned([status |-> "ok", detected |-> items,
                            added |-> Len(after) - Len(pantryDocs)])
        /\ pantryDocs' = after
        /\ UNCHANGED <<pc, db, mealplanDocs, prefDocs>>

ReceiptItems == <<"milk", "eggs", "bread", "tomato", "pasta">>

PhotoItems == <<"banana", "oats", "peanut butter">>

scan_receipt(outs) == DetectAndAdd("scan_receipt", ReceiptItems, outs)

pantry_photo(outs) == DetectAndAdd("pantry_photo", PhotoItems, outs)

GenerateRequest(goal, workout_preference, weight, diet_type, allergies) ==
    [age |-> None, weight |-> weight, height |-> None, gender |-> NoneStr, goal |-> goal,
     workout_preference |-> workout_preference, diet_type |-> diet_type,
     allergies |-> allergies, dislikes |-> <<>>]

GoalLabels == {"lose weight", "get lean", "build muscle", "bulk", "maintain weight"}

WorkoutLabels == {"Home", "Gym", "Outdoor"}

\* a default profile, one whose filters leave only the fallback meal, and one whose
\* weight overflows the estimate
Profiles ==
    { [weight |-> None, diet_type |-> NoneStr, allergies |-> <<>>],
      [weight |-> Num(-40), diet_type |-> "vegan", allergies |-> <<"oats", "tofu">>],
      [weight |-> Huge, diet_type |-> "vegetarian", allergies |-> <<>>] }

ApiRequests ==
    { GenerateRequest("bulk", "Outdoor", p.weight, p.diet_type, p.allergies) : p \in Profiles }

PlanRequests ==
    ApiRequests \cup
    { GenerateRequest(g, w, None, NoneStr, <<>>) : g \in GoalLabels, w \in WorkoutLabels }

PreferenceUpdates ==
    { [allergies |-> <<"oats">>, dislikes |-> <<>>, diet_type |-> "vegan"],
      [allergies |-> <<>>, dislikes |-> <<>>, diet_type |-> NoneStr] }

PantryNames == {"rice", "Eggs"}

InitApi ==
    /\ pc = "serving"
    /\ op = "start"
    /\ arg = <<>>
    /\ ret = Returned(0)
    /\ db \in BOOLEAN
    /\ mealplanDocs = <<>>
    /\ prefDocs = <<>>
    /\ pantryDocs = <<>>
    /\ first = [set |-> FALSE]

Remember ==
    first' = IF first.set THEN first ELSE [set |-> TRUE, req |-> arg', ret |-> ret']

NextPlan ==
    \/ \E req \in PlanRequests, out \in StoreOutcomes : generate_plan(req, out) /\ Remember
    \/ \E req \in PlanRequests, out \in StoreOutcomes : regenerate_plan(req, out) /\ Remember
    \/ \E out \in StoreOutcomes : view_groceries(out) /\ UNCHANGED first

SpecPlan == InitApi /\ [][NextPlan]_vars

NextApi ==
    \/ \E req \in ApiRequests, out \in StoreOutcomes : generate_plan(req, out) /\ UNCHANGED first
    \/ \E req \in ApiRequests, out \in StoreOutcomes : regenerate_plan(req, out) /\ UNCHANGED first
    \/ \E out \in StoreOutcomes : view_groceries(out) /\ UNCHANGED first
    \/ \E pref \in PreferenceUpdates, out \in StoreOutcomes :
           update_preferences(pref, out) /\ UNCHANGED first
    \/ \E n \in PantryNames, out \in StoreOutcomes :
           pantry_add(PantryItem(n), out) /\ UNCHANGED first
    \/ \E out \in StoreOutcomes : pantry_list(out) /\ UNCHANGED first
    \/ \E out \in StoreOutcomes : pantry_suggest(out) /\ UNCHANGED first
    \/ \E outs \in [DOMAIN ReceiptItems -> StoreOutcomes] : scan_receipt(outs) /\ UNCHANGED first
    \/ \E outs \in [DOMAIN PhotoItems -> StoreOutcomes] : pantry_photo(outs) /\ UNCHANGED first

SpecApi == InitApi /\ [][NextApi]_vars

(***************************************************************************)
(* Properties of the four pure functions, checked under Spec.              *)
(***************************************************************************)
Done(name) == pc = "done" /\ op = name

Max(a, b) == IF a >= b THEN a ELSE b

\* n / d rounded toward zero, d > 0
TruncDiv(n, d) == IF n >= 0 THEN n \div d ELSE -((-n) \div d)

\* C1: for every goal, weight, height, age and gender, calculate_calories
\* returns an integer that is at least 1200.
C1_AlwaysAtLeast1200 ==
    Done("calculate_calories") => (ret.ok /\ ret.val >= 1200)

GoldenInput ==
    [goal |-> "lose", weight_kg |-> Num(70), height_cm |-> Num(170),
     age |-> Num(30), gender |-> "female"]

FiniteInput == arg.weight_kg.k \in {"none", "fin"} /\ arg.height_cm.k \in {"none", "fin"}

StatedAdj(goal) ==
    CASE goal = "lose" -> -400
      [] goal = "lean" -> -150
      [] goal = "build" -> 200
      [] goal = "bulk" -> 400
      [] OTHER -> 0

\* max(1200, trunc(1.45 * (10 w + 6.25 h - 5 a + s) + adj)), with w, h, a in 1/160ths
StatedValue(w, h, a, s, adj) ==
    Max(1200, TruncDiv((29 * (40 * w + 25 * h - 20 * a + 4 * s * Unit)) \div 80 + adj * Unit, Unit))

\* C2 as stated: the result is max(1200, trunc(1.45*(10w + 6.25h - 5a + s) + adj))
\* with the defaults 70, 170, 30 used only for missing values, s = -161 only for
\* "female" or a missing gender, and 1526 for ("lose", 70, 170, 30, "female").
C2_AsStated ==
    (Done("calculate_calories") /\ FiniteInput) =>
        LET w == IF arg.weight_kg.k = "none" THEN 70 * Unit ELSE arg.weight_kg.v
            h == IF arg.height_cm.k = "none" THEN 170 * Unit ELSE arg.height_cm.v
            a == IF arg.age.k = "none" THEN 30 * Unit ELSE arg.age.v
            s == IF arg.gender \in {"female", NoneStr} THEN -161 ELSE 5
        IN  /\ ret.ok
            /\ ret.val = StatedValue(w, h, a, s, StatedAdj(arg.goal))
            /\ arg = GoldenInput => ret.val = 1526

\* C2 amended: the defaults 70, 170, 30 also replace a zero, s = -161 also for the
\* empty gender string, the value for ("lose", 70, 170, 30, "female") is 1704; when
\* the double sum is NaN or -infinity the result is 1200, and when it is +infinity
\* (a weight or height of 1e308 or more) the call raises OverflowError.
C2_Amended ==
    Done("calculate_calories") =>
        LET wx == arg.weight_kg
            hx == arg.height_cm
            w == IF wx.k = "none" \/ wx.v = 0 THEN 70 * Unit ELSE wx.v
            h == IF hx.k = "none" \/ hx.v = 0 THEN 170 * Unit ELSE hx.v
            a == IF arg.age.k = "none" \/ arg.age.v = 0 THEN 30 * Unit ELSE arg.age.v
            s == IF arg.gender \in {"female", NoneStr, ""} THEN -161 ELSE 5
            kinds == {wx.k, hx.k}
            up == kinds \cap {"huge", "pinf"} # {}
            down == "ninf" \in kinds
            nan == "nan" \in kinds \/ (up /\ down)
        IN  /\ nan => ret = Returned(1200)
            /\ (up /\ ~nan) => ret = Raised("OverflowError")
            /\ (down /\ ~nan) => ret = Returned(1200)
            /\ FiniteInput => ret = Returned(StatedValue(w, h, a, s, StatedAdj(arg.goal)))
            /\ arg = GoldenInput => ret = Returned(1704)

C2_Witness ==
    Done("calculate_calories") /\ arg = GoldenInput /\ ret = Returned(1704)

HasIngredient(meal, x) == \E j \in DOMAIN meal.ingredients : meal.ingredients[j] = x

\* C3: with diet_type "vegan" no returned meal lists "chicken" or "salmon", and
\* with diet_type "vegetarian" no returned meal lists "chicken".
C3_DietExcludesMeat ==
    Done("generate_meals") =>
        \A i \in DOMAIN ret.val :
            /\ arg.diet_type = "vegan" =>
                   ~HasIngredient(ret.val[i], "chicken") /\ ~HasIngredient(ret.val[i], "salmon")
            /\ arg.diet_type = "vegetarian" => ~HasIngredient(ret.val[i], "chicken")

C3_Witness ==
    /\ Done("generate_meals") /\ arg.diet_type = "vegan" /\ arg.cal_target = 2400
    /\ arg.allergies = <<>> /\ arg.dislikes = <<>>
    /\ Len(ret.val) = 2

Passing == {i \in DOMAIN base : ~Skipped(base[i], arg.diet_type, arg.allergies, arg.dislikes)}

CatalogEntries == {base[i] : i \in DOMAIN base}

\* C4: generate_meals returns a non-empty list; it is the single meal "Mixed veggie
\* bowl" exactly when no catalog entry passes the filters, and holds only catalog
\* entries otherwise.
C4_NonEmptyWithFallback ==
    Done("generate_meals") =>
        /\ Len(ret.val) >= 1
        /\ (Len(ret.val) = 1 /\ ret.val[1].title = "Mixed veggie bowl") <=> (Passing = {})
        /\ Passing # {} => \A i \in DOMAIN ret.val : ret.val[i] \in CatalogEntries

C4_Witness ==
    /\ Done("generate_meals") /\ arg.diet_type = "omnivore" /\ Passing = {}
    /\ ret.val = <<FallbackMeal>>

\* C5: no returned meal, catalog entry or fallback, has an ingredient that equals an
\* allergy or dislike string when case is ignored.
C5_HonorsAllergies ==
    Done("generate_meals") =>
        LET xs == arg.allergies \o arg.dislikes
        IN  \A i \in DOMAIN ret.val : \A j \in DOMAIN ret.val[i].ingredients :
                \A n \in DOMAIN xs : Lower(ret.val[i].ingredients[j]) # Lower(xs[n])

RECURSIVE Flatten(_)
Flatten(meals) ==
    IF meals = <<>> THEN <<>> ELSE Head(meals).ingredients \o Flatten(Tail(meals))

\* the positions of flat that hold the first occurrence of their string
FirstAt(flat) == {i \in DOMAIN flat : \A j \in 1..(i - 1) : flat[j] # flat[i]}

Occurrences(flat, x) == Cardinality({i \in DOMAIN flat : flat[i] = x})

\* the n-th smallest element of the set S of numbers
Nth(S, n) == CHOOSE x \in S : Cardinality({y \in S : y < x}) = n - 1

\* C6: build_groceries returns one string "<ingredient> x<count>" per distinct
\* ingredient, in first-seen order, count being the number of occurrences of the
\* ingredient over all meals; [a,b] and [b] give ["a x1", "b x2"].
C6_GroceriesCountInOrder ==
    Done("build_groceries") =>
        LET flat == Flatten(arg.meals)
            firsts == FirstAt(flat)
        IN  /\ Len(ret.val) = Cardinality(firsts)
            /\ \A n \in 1..Cardinality(firsts) :
                   LET x == flat[Nth(firsts, n)]
                   IN  ret.val[n] = x \o " x" \o ToString(Occurrences(flat, x))
            /\ (Len(arg.meals) = 2 /\ arg.meals[1].ingredients = <<"a", "b">>
                    /\ arg.meals[2].ingredients = <<"b">>)
                   => ret.val = <<"a x1", "b x2">>

C6_Witness ==
    /\ Done("build_groceries") /\ Len(arg.meals) = 2
    /\ arg.meals[1].ingredients = <<"b", "b">> /\ arg.meals[2].ingredients = <<"a", "b">>
    /\ ret.val = <<"b x3", "a x1">>

\* C7: for every setting other than "home" and "outdoor", gym_program returns the gym
\* schedule instead of raising.
C7_UnknownSettingFallsBack ==
    (Done("gym_program") /\ arg.setting \notin {"home", "outdoor"}) =>
        (ret.ok /\ ret.val.days = GymDays)

RECURSIVE SumCalories(_)
SumCalories(meals) ==
    IF meals = <<>> THEN 0 ELSE Head(meals).calories + SumCalories(Tail(meals))

Filtered ==
    LET Keep(e) == ~Skipped(e, arg.diet_type, arg.allergies, arg.dislikes)
    IN  SelectSeq(base, Keep)

\* the shortest prefix of ms, of length at least least, whose calories reach target;
\* all of ms when none does
ShortestPrefix(ms, target, least) ==
    LET reach == {n \in least..Len(ms) : SumCalories(SubSeq(ms, 1, n)) >= target}
    IN  IF reach = {} THEN ms
        ELSE SubSeq(ms, 1, CHOOSE n \in reach : \A m \in reach : n <= m)

AllButLast(ms) == SubSeq(ms, 1, Len(ms) - 1)

\* C10 as stated: when an entry passes the filters, the result is the shortest prefix
\* of the passing entries whose calories reach cal_target (all of them when none
\* does), and the returned meals but the last sum to less than cal_target.
C10_AsStated ==
    (Done("generate_meals") /\ Passing # {}) =>
        /\ ret.val = ShortestPrefix(Filtered, arg.cal_target, 0)
        /\ SumCalories(AllButLast(ret.val)) < arg.cal_target

\* C10 amended: the result is the shortest non-empty prefix of the passing entries
\* whose calories reach cal_target (all of them when none does); the returned meals
\* but the last sum to less than cal_target when cal_target is positive.
C10_Amended ==
    (Done("generate_meals") /\ Passing # {}) =>
        /\ ret.val = ShortestPrefix(Filtered, arg.cal_target, 1)
        /\ arg.cal_target > 0 => SumCalories(AllButLast(ret.val)) < arg.cal_target

C10_Witness ==
    /\ Done("generate_meals") /\ arg.cal_target = 451 /\ arg.diet_type = "vegetarian"
    /\ Len(Filtered) = 3 /\ Len(ret.val) = 2
    /\ ret.val[2].title = "Tofu stir-fry"

(***************************************************************************)
(* Properties of the endpoints, checked under SpecApi and SpecPlan.        *)
(***************************************************************************)
\* C8: no endpoint lets an exception of the store reach its caller.
C8_StoreErrorsNeverPropagate ==
    pc = "serving" => ret.exc # "StoreError"

SameOutcome(a, b) == a.ok = b.ok /\ a.exc = b.exc /\ (a.ok => a.val = b.val)

====
